---------------------------- MODULE Spec2Model ----------------------------
(***************************************************************************)
(* A model of src/app/VolSurface2.py: one run of the script, from the      *)
(* ticker input to the rendered implied-volatility surface.                *)
(*                                                                         *)
(* Units.  Strike fractions (min_input, max_input) are in tenths, so the   *)
(* widget range 0.5 .. 1.9 is 5 .. 19.  Prices and strikes are whole       *)
(* currency units; lower_bound and upper_bound (fraction * price) and the  *)
(* strike axis of the figure are therefore in tenths of a unit.  Dates are *)
(* calendar days counted from the date of the run; the time of day of the  *)
(* run is in ticks, TicksPerDay ticks to a day, 0 being midnight.          *)
(* Maturities are whole days (timedelta.days); the time axis of the figure *)
(* is in days, i.e. in sevenths of the weeks the code plots.  Volatilities *)
(* are in percent, so the placeholder 0.5 is 50.                           *)
(*                                                                         *)
(* The libraries are modelled by their contracts.  implied_volatility      *)
(* either returns a positive volatility or raises (compute_iv then gives   *)
(* NaN); the ask price and the risk-free rate only feed that call and are  *)
(* left out.  griddata raises for the cubic and linear methods when the    *)
(* points cannot be triangulated (fewer than three, or all on one line),   *)
(* otherwise leaves NaN exactly at the nodes outside the convex hull of    *)
(* the points; the nearest method gives every node the value of a closest  *)
(* point.  Interpolated values themselves are not modelled.                *)
(***************************************************************************)
EXTENDS Integers, Sequences, FiniteSets

VARIABLES
    pc,               \* position of the script
    stock_price,      \* last close (line 22), 0 before it is read
    today,            \* time of day of datetime.today() (line 23), in ticks
    options,          \* stock.options as listed by the gateway (line 28)
    expiration_dates, \* the selected expirations (lines 27-31)
    min_input,        \* lines 39-40, 0 before they are read
    max_input,
    lower_bound,      \* lines 42-43
    upper_bound,
    exp_idx,          \* position of the loop of line 53
    option_chain,     \* the chain fetched by the current iteration (line 59)
    all_data,         \* line 51: the frames appended so far
    option_data,      \* lines 80-94: the priced rows
    errors,           \* st.error messages shown
    notes,            \* st.write messages shown
    figure,           \* what st.plotly_chart was given (line 132)
    attempts,         \* the griddata methods called, in order
    fetched,          \* one entry per stock.option_chain call: did it return
    iv_calls          \* number of implied_volatility calls

vars == <<pc, stock_price, today, options, expiration_dates, min_input,
          max_input, lower_bound, upper_bound, exp_idx, option_chain,
          all_data, option_data, errors, notes, figure, attempts,
          fetched, iv_calls>>

---------------------------------------------------------------------------
(* Bounds of the model *)

\* ticks in a day: the resolution of the time of day of the run
TicksPerDay == 2
\* contracts a chain lists per side
MaxChain == 1
\* expirations the gateway lists
MaxOptions == 3

(* Program constants *)

\* timedelta(days=7), line 29
MinDays == 7
\* timedelta(days=730), line 29
MaxDays == 730
\* np.linspace(..., 50), lines 111-112
GridN == 50
\* np.linspace(..., 10), lines 101-102
PlaceholderN == 10
\* np.full_like(T_grid, 0.5), line 104, in percent
PlaceholderVol == 50

\* np.nan (line 89); every volatility implied_volatility returns is positive
NaN == -1

IsNaN(v) == v = NaN

\* number_input(min_value=0.5, max_value=1.9), line 39, in tenths
MinInputRange == 5..19
\* number_input(min_value=0.6, max_value=2.0), line 40, in tenths
MaxInputRange == 6..20

NoChain == [available |-> FALSE, calls |-> <<>>, puts |-> <<>>]
NoFigure == [tier |-> "none", T_axis |-> <<0, 0, 0>>, S_axis |-> <<0, 0, 0>>,
             allnan |-> FALSE, values |-> {}]

---------------------------------------------------------------------------
(* Helpers *)

Min(S) == CHOOSE x \in S : \A y \in S : x <= y
Max(S) == CHOOSE x \in S : \A y \in S : x >= y

Range(s) == {s[i] : i \in 1..Len(s)}

\* strictly ascending sequences over S of length at most n
SortedSeqs(S, n) ==
    {s \in UNION {[1..k -> S] : k \in 0..n} :
        \A i \in 1..Len(s), j \in 1..Len(s) : i < j => s[i] < s[j]}

RECURSIVE Flatten(_)
\* pd.concat(all_data, ignore_index=True), line 80
Flatten(frames) ==
    IF frames = <<>> THEN <<>> ELSE Head(frames) \o Flatten(Tail(frames))

---------------------------------------------------------------------------
(* The expiration window, lines 27-29 and 54-56 *)

\* today + timedelta(days=7) <= strptime(date) <= today + timedelta(days=730):
\* the date is a midnight, today carries the time of day of the run
InWindow(date, tod) ==
    /\ tod + MinDays * TicksPerDay <= date * TicksPerDay
    /\ date * TicksPerDay <= tod + MaxDays * TicksPerDay

\* [date for date in stock.options if ...], line 27
SelectDates(listed, tod) == SelectSeq(listed, LAMBDA d : InWindow(d, tod))

\* (expiration_datetime - today).days, lines 55-56: whole days, rounded down
DaysTo(date, tod) == (date * TicksPerDay - tod) \div TicksPerDay

---------------------------------------------------------------------------
(* The strike band, lines 42-47 and 73-74 *)

\* lower_bound = min_input * stock_price, line 42
LowerBound(mi, price) == mi * price
\* upper_bound = max_input * stock_price, line 43
UpperBound(ma, price) == ma * price

\* mutant: the re-check with the ends of the range excluded
BandRejectedInclusive(lo, hi, price) == lo <= 5 * price \/ hi >= 20 * price

\* lower_bound < 0.5 * stock_price or upper_bound > 2.0 * stock_price, line 45
BandRejected(lo, hi, price) == lo < 5 * price \/ hi > 20 * price

\* mutant: the lower end of the band excluded
InBandExclusive(strike, lo, hi) == 10 * strike > lo /\ 10 * strike <= hi

\* (strike >= lower_bound) & (strike <= upper_bound), lines 73-74
InBand(strike, lo, hi) == 10 * strike >= lo /\ 10 * strike <= hi

\* calls[...] / puts[...], lines 65-74: the rows of one side, filtered
FilterSide(strikes, side, days, lo, hi) ==
    LET rows == [i \in 1..Len(strikes) |->
                    [strike |-> strikes[i], days |-> days, option_type |-> side]]
    IN  SelectSeq(rows, LAMBDA r : InBand(r.strike, lo, hi))

---------------------------------------------------------------------------
(* The script, top to bottom.  P is the set of inputs the environment      *)
(* (user, market data gateway, root finder) is drawn from.                 *)

\* lines 14-23: the ticker's price history; close 0 is an empty history
LookupTicker(P) ==
    /\ pc = "ticker"
    /\ \E close \in P.closes, tod \in P.tods :
         IF close = 0
         THEN /\ errors' = Append(errors, "NoHistoricalData")
              /\ pc' = "stopped"
              /\ UNCHANGED <<stock_price, today>>
         ELSE /\ stock_price' = close
              /\ today' = tod
              /\ pc' = "expirations"
              /\ UNCHANGED errors
    /\ UNCHANGED <<options, expiration_dates, min_input, max_input,
                   lower_bound, upper_bound, exp_idx, option_chain, all_data,
                   option_data, notes, figure, attempts, fetched,
                   iv_calls>>

\* lines 26-35: the expirations in the window; listing them may raise
SelectExpirations(P) ==
    /\ pc = "expirations"
    /\ \E listed \in SortedSeqs(P.dates, MaxOptions), raises \in BOOLEAN :
         LET selected == IF raises THEN <<>> ELSE SelectDates(listed, today)
         IN  /\ raises => listed = <<>>
             /\ options' = listed
             /\ expiration_dates' = selected
             /\ IF selected = <<>>
                THEN /\ errors' = Append(errors, "NoExpirations")
                     /\ pc' = "stopped"
                ELSE /\ pc' = "band"
                     /\ UNCHANGED errors
    /\ UNCHANGED <<stock_price, today, min_input, max_input, lower_bound,
                   upper_bound, exp_idx, option_chain, all_data, option_data,
                   notes, figure, attempts, fetched, iv_calls>>

\* lines 37-47: the strike band; the widgets only return values of their range
StrikeBand(P) ==
    /\ pc = "band"
    /\ \E mi \in P.minFractions \cap MinInputRange,
          ma \in P.maxFractions \cap MaxInputRange :
         LET lo == LowerBound(mi, stock_price)
             hi == UpperBound(ma, stock_price)
         IN  /\ min_input' = mi
             /\ max_input' = ma
             /\ lower_bound' = lo
             /\ upper_bound' = hi
             /\ IF BandRejected(lo, hi, stock_price)
                THEN /\ errors' = Append(errors, "StrikeBand")
                     /\ pc' = "stopped"
                ELSE /\ pc' = "fetch"
                     /\ UNCHANGED errors
    /\ UNCHANGED <<stock_price, today, options, expiration_dates, exp_idx,
                   option_chain, all_data, option_data, notes, figure,
                   attempts, fetched, iv_calls>>

\* lines 53-77: one iteration of the loop over expiration_dates
FetchChain(P) ==
    /\ pc = "fetch"
    /\ exp_idx <= Len(expiration_dates)
    /\ \E available \in BOOLEAN,
          calls \in SortedSeqs(P.callStrikes, MaxChain),
          puts \in SortedSeqs(P.putStrikes, MaxChain) :
         LET days == DaysTo(expiration_dates[exp_idx], today)
         IN  /\ ~available => calls = <<>> /\ puts = <<>>
             /\ option_chain' =
                  [available |-> available, calls |-> calls, puts |-> puts]
             /\ all_data' =
                  IF available
                  THEN all_data \o
                       << FilterSide(calls, "c", days, lower_bound, upper_bound),
                          FilterSide(puts, "p", days, lower_bound, upper_bound) >>
                  ELSE all_data
             /\ fetched' = Append(fetched, available)
    /\ exp_idx' = exp_idx + 1
    /\ UNCHANGED <<pc, stock_price, today, options, expiration_dates,
                   min_input, max_input, lower_bound, upper_bound,
                   option_data, errors, notes, figure, attempts, iv_calls>>

\* mutant: a row whose inversion fails is dropped instead of marked
ComputeIVDropFailed(rows, ivs) ==
    LET priced == [i \in 1..Len(rows) |->
                      [strike |-> rows[i].strike, days |-> rows[i].days,
                       option_type |-> rows[i].option_type, iv |-> ivs[i]]]
    IN  SelectSeq(priced, LAMBDA r : ~IsNaN(r.iv))

\* option_data.apply(compute_iv, axis=1), lines 85-92: ivs[i] is what
\* implied_volatility gives for row i, NaN when it raises
ComputeIV(rows, ivs) ==
    [i \in 1..Len(rows) |->
        [strike |-> rows[i].strike, days |-> rows[i].days,
         option_type |-> rows[i].option_type, iv |-> ivs[i]]]

\* lines 79-94: the end of the loop, concat and pricing
PriceContracts(P) ==
    /\ pc = "fetch"
    /\ exp_idx > Len(expiration_dates)
    /\ LET rows == Flatten(all_data)
       IN  \E ivs \in [1..Len(rows) -> P.ivs] :
             /\ option_data' = ComputeIV(rows, ivs)
             /\ iv_calls' = iv_calls + Len(rows)
    \* fetch_option_data returns: its locals are gone
    /\ option_chain' = NoChain
    /\ all_data' = <<>>
    /\ exp_idx' = 1
    /\ pc' = "main"
    /\ UNCHANGED <<stock_price, today, options, expiration_dates, min_input,
                   max_input, lower_bound, upper_bound, errors, notes, figure,
                   attempts, fetched>>

---------------------------------------------------------------------------
(* scipy.interpolate.griddata on the 50 x 50 mesh, lines 111-119.          *)
(* A point is [x |-> days, y |-> strike, v |-> volatility].  Coordinates   *)
(* are multiplied by GridN - 1 so that the nodes of np.linspace are whole. *)

\* mutant: the rows with an undefined volatility are kept
DropNaKeepAll(rows) == rows

\* option_data.dropna(subset=['implied_volatility']), line 98
DropNa(rows) == SelectSeq(rows, LAMBDA r : ~IsNaN(r.iv))

\* (times, strikes), implied_vols: lines 106-108
Points(rows) ==
    {[x |-> rows[i].days, y |-> rows[i].strike, v |-> rows[i].iv] :
        i \in 1..Len(rows)}

Scaled(p) == [x |-> (GridN - 1) * p.x, y |-> (GridN - 1) * p.y]

\* times.min(), times.max(), strikes.min(), strikes.max(), lines 111-112
Box(pts) ==
    [x0 |-> Min({p.x : p \in pts}), x1 |-> Max({p.x : p \in pts}),
     y0 |-> Min({p.y : p \in pts}), y1 |-> Max({p.y : p \in pts})]

\* np.meshgrid(np.linspace(x0, x1, 50), np.linspace(y0, y1, 50)), lines
\* 111-112: the node of column i and row j
Node(box, i, j) ==
    [x |-> (GridN - 1) * box.x0 + i * (box.x1 - box.x0),
     y |-> (GridN - 1) * box.y0 + j * (box.y1 - box.y0)]

Orient(a, b, c) == (b.x - a.x) * (c.y - a.y) - (b.y - a.y) * (c.x - a.x)

\* Qhull cannot triangulate fewer than three points or points on one line:
\* the cubic and linear methods raise QhullError
Degenerate(pts) == \A a \in pts, b \in pts, c \in pts : Orient(a, b, c) = 0

InTriangle(q, a, b, c) ==
    LET o1 == Orient(a, b, q)
        o2 == Orient(b, c, q)
        o3 == Orient(c, a, q)
    IN  \/ (o1 >= 0 /\ o2 >= 0 /\ o3 >= 0)
        \/ (o1 <= 0 /\ o2 <= 0 /\ o3 <= 0)

\* a node has a value under the cubic and linear methods exactly when it lies
\* in the convex hull of the points (fill_value = nan outside)
InHull(q, pts) ==
    \E a \in pts, b \in pts, c \in pts :
        /\ Orient(a, b, c) # 0
        /\ InTriangle(q, Scaled(a), Scaled(b), Scaled(c))

\* np.isnan(IV_grid).all(), line 116, for a cubic or linear grid
AllNodesNaN(pts) ==
    LET box == Box(pts)
    IN  \A i \in 0..(GridN - 1), j \in 0..(GridN - 1) :
            ~InHull(Node(box, i, j), pts)

\* squared distance on the plotted axes (weeks, strike), times 49
Dist2(q, p) ==
    (q.x - p.x) * (q.x - p.x) + 49 * (q.y - p.y) * (q.y - p.y)

\* method='nearest': each node takes the value of a point closest to it
NearestValues(pts) ==
    LET box == Box(pts)
    IN  {p.v : p \in {p \in pts :
            \E i \in 0..(GridN - 1), j \in 0..(GridN - 1) :
                \A r \in pts : Dist2(Node(box, i, j), Scaled(p))
                                 <= Dist2(Node(box, i, j), Scaled(r))}}

\* griddata((times, strikes), implied_vols, (T_grid, S_grid), method=...)
Griddata(pts, method) ==
    IF method = "nearest"
    THEN [raised |-> FALSE, allnan |-> FALSE, values |-> NearestValues(pts)]
    ELSE IF Degenerate(pts)
    THEN [raised |-> TRUE, allnan |-> FALSE, values |-> {}]
    ELSE [raised |-> FALSE, allnan |-> AllNodesNaN(pts), values |-> {}]

\* mutant: the grid is left undefined when an attempt raises
InterpolateNoFallback(pts) ==
    LET cubic == Griddata(pts, "cubic")
    IN  IF cubic.raised
        THEN [tier |-> "cubic", calls |-> <<"cubic">>,
              grid |-> [raised |-> TRUE, allnan |-> TRUE, values |-> {}]]
        ELSE [tier |-> "cubic", calls |-> <<"cubic">>, grid |-> cubic]

\* mutant: linear is called after every cubic grid (.any() for .all())
InterpolateLinearAlways(pts) ==
    LET cubic == Griddata(pts, "cubic")
        linear == Griddata(pts, "linear")
        nearest == Griddata(pts, "nearest")
    IN  IF cubic.raised
        THEN [tier |-> "nearest", calls |-> <<"cubic", "nearest">>,
              grid |-> nearest]
        ELSE [tier |-> "linear", calls |-> <<"cubic", "linear">>,
              grid |-> linear]

\* lines 114-119: cubic, linear when the cubic grid is all NaN, nearest when
\* either raises
Interpolate(pts) ==
    LET cubic == Griddata(pts, "cubic")
        linear == Griddata(pts, "linear")
        nearest == Griddata(pts, "nearest")
    IN  IF cubic.raised
        THEN [tier |-> "nearest", calls |-> <<"cubic", "nearest">>,
              grid |-> nearest]
        ELSE IF ~cubic.allnan
        THEN [tier |-> "cubic", calls |-> <<"cubic">>, grid |-> cubic]
        ELSE IF linear.raised
        THEN [tier |-> "nearest", calls |-> <<"cubic", "linear", "nearest">>,
              grid |-> nearest]
        ELSE [tier |-> "linear", calls |-> <<"cubic", "linear">>,
              grid |-> linear]

\* mutant: np.zeros_like for np.full_like(T_grid, 0.5)
PlaceholderZeros(price) ==
    [tier |-> "placeholder",
     T_axis |-> <<7 * 1, 7 * 52, PlaceholderN>>,
     S_axis |-> <<8 * price, 12 * price, PlaceholderN>>,
     allnan |-> FALSE,
     values |-> {0}]

\* lines 101-104: the placeholder surface
Placeholder(price) ==
    [tier |-> "placeholder",
     T_axis |-> <<7 * 1, 7 * 52, PlaceholderN>>,
     S_axis |-> <<8 * price, 12 * price, PlaceholderN>>,
     allnan |-> FALSE,
     values |-> {PlaceholderVol}]

\* lines 106-119: the surface over the valid rows
Surface(valid) ==
    LET pts == Points(valid)
        res == Interpolate(pts)
        box == Box(pts)
    IN  [tier |-> res.tier,
         T_axis |-> <<box.x0, box.x1, GridN>>,
         S_axis |-> <<10 * box.y0, 10 * box.y1, GridN>>,
         allnan |-> res.grid.allnan,
         values |-> res.grid.values]

\* lines 135-140: the guard of the main execution
MainDispatch ==
    /\ pc = "main"
    /\ IF option_data = <<>>
       THEN /\ notes' = Append(notes, "NoDataForPlotting")
            /\ pc' = "done"
       ELSE /\ pc' = "plot"
            /\ UNCHANGED notes
    /\ UNCHANGED <<stock_price, today, options, expiration_dates, min_input,
                   max_input, lower_bound, upper_bound, exp_idx, option_chain,
                   all_data, option_data, errors, figure, attempts,
                   fetched, iv_calls>>

\* lines 97-132: plot_iv_surface
PlotSurface ==
    /\ pc = "plot"
    /\ LET valid == DropNa(option_data)
       IN  IF valid = <<>>
           THEN /\ notes' = Append(notes, "PlaceholderNotice")
                /\ figure' = Placeholder(stock_price)
                /\ UNCHANGED attempts
           ELSE /\ figure' = Surface(valid)
                /\ attempts' = Interpolate(Points(valid)).calls
                /\ UNCHANGED notes
    /\ pc' = "done"
    /\ UNCHANGED <<stock_price, today, options, expiration_dates, min_input,
                   max_input, lower_bound, upper_bound, exp_idx, option_chain,
                   all_data, option_data, errors, fetched, iv_calls>>

---------------------------------------------------------------------------
(* Specifications *)

Init ==
    /\ pc = "ticker"
    /\ stock_price = 0
    /\ today = 0
    /\ options = <<>>
    /\ expiration_dates = <<>>
    /\ min_input = 0
    /\ max_input = 0
    /\ lower_bound = 0
    /\ upper_bound = 0
    /\ exp_idx = 1
    /\ option_chain = NoChain
    /\ all_data = <<>>
    /\ option_data = <<>>
    /\ errors = <<>>
    /\ notes = <<>>
    /\ figure = NoFigure
    /\ attempts = <<>>
    /\ fetched = <<>>
    /\ iv_calls = 0

Run(P) ==
    \/ LookupTicker(P)
    \/ SelectExpirations(P)
    \/ StrikeBand(P)
    \/ FetchChain(P)
    \/ PriceContracts(P)
    \/ MainDispatch
    \/ PlotSurface

\* the surface pipeline: two expirations, strikes on and around the band,
\* volatilities that may be undefined
SurfaceInputs ==
    [closes |-> {0, 10}, tods |-> {1}, dates |-> {14, 28},
     minFractions |-> {8}, maxFractions |-> {12},
     callStrikes |-> {7, 8, 12, 13}, putStrikes |-> {8, 13},
     ivs |-> {20, 40, NaN}]

\* the shapes of the point set: three expirations, three strikes in the band
HullInputs ==
    [closes |-> {0, 10}, tods |-> {1}, dates |-> {14, 28, 42},
     minFractions |-> {8}, maxFractions |-> {12},
     callStrikes |-> {8, 10, 12}, putStrikes |-> {12},
     ivs |-> {30}]

\* the strike band: every fraction the widgets accept
BandInputs ==
    [closes |-> {0, 10, 25}, tods |-> {0}, dates |-> {30},
     minFractions |-> 0..30, maxFractions |-> 0..30,
     callStrikes |-> {10}, putStrikes |-> {10}, ivs |-> {20}]

\* the expiration window: dates around both ends, at every time of day
WindowInputs ==
    [closes |-> {0, 10}, tods |-> 0..(TicksPerDay - 1),
     dates |-> {MinDays - 1, MinDays, MinDays + 1,
                MaxDays - 1, MaxDays, MaxDays + 1},
     minFractions |-> {8}, maxFractions |-> {12},
     callStrikes |-> {10}, putStrikes |-> {}, ivs |-> {20}]

Next == Run(SurfaceInputs)
NextHull == Run(HullInputs)
NextBand == Run(BandInputs)
NextWindow == Run(WindowInputs)

Spec == Init /\ [][Next]_vars
SpecHull == Init /\ [][NextHull]_vars
SpecBand == Init /\ [][NextBand]_vars
SpecWindow == Init /\ [][NextWindow]_vars

---------------------------------------------------------------------------
(* The pipeline states of the design, read off the position of the script *)

\* the run is over: st.stop() was called, or the script reached its end
Terminal == pc \in {"stopped", "done"}
\* a surface was drawn
Rendered == figure # NoFigure
\* a failure was surfaced: an st.error, or the no-data message of line 140
Failed == errors # <<>> \/ "NoDataForPlotting" \in Range(notes)

Stage ==
    CASE pc = "ticker" -> "AwaitingInput"
      [] pc = "expirations" -> "Fetching"
      [] pc \in {"band", "fetch"} -> "Filtering"
      [] pc = "main" -> "Pricing"
      [] pc = "plot" -> "Interpolating"
      [] pc = "done" /\ Rendered -> "Rendered"
      [] OTHER -> "Error"

Rank(stage) ==
    CASE stage = "AwaitingInput" -> 1
      [] stage = "Fetching" -> 2
      [] stage = "Filtering" -> 3
      [] stage = "Pricing" -> 4
      [] stage = "Interpolating" -> 5
      [] OTHER -> 6

\* the rows of option_data with a defined volatility
ValidRows == {i \in 1..Len(option_data) : option_data[i].iv # NaN}

---------------------------------------------------------------------------
(* Claims *)

\* C1 (as stated): whenever the minimum strike fraction entered is not
\* strictly below the maximum, the run halts with the strike-band error and
\* no chain is fetched, no contract priced, nothing rendered.
C1_InvertedBandHalts ==
    (min_input > 0 /\ min_input >= max_input) =>
        /\ pc = "stopped"
        /\ "StrikeBand" \in Range(errors)
        /\ fetched = <<>>
        /\ iv_calls = 0
        /\ figure = NoFigure

\* C2 (as stated): a run that passed input validation and ended with no
\* contract having a defined volatility has drawn the placeholder grid, every
\* cell 0.5 over the range derived from the spot price, with the notice shown
\* and no error.
C2_NoValidPointsRendered ==
    (pc = "done" /\ ValidRows = {}) =>
        /\ figure = [tier |-> "placeholder",
                     T_axis |-> <<7, 364, 10>>,
                     S_axis |-> <<8 * stock_price, 12 * stock_price, 10>>,
                     allnan |-> FALSE, values |-> {50}]
        /\ "PlaceholderNotice" \in Range(notes)
        /\ ~Failed

\* C2 (amended): when at least one contract was priced and none has a defined
\* volatility the placeholder grid (0.5 everywhere, 10 x 10 nodes, 1 to 52
\* weeks, 0.8 to 1.2 times the spot price) is drawn with the notice and no
\* failure; when no contract reached pricing nothing is drawn and the only
\* message is the no-data message.
C2_PlaceholderWhenAllUndefined ==
    /\ (pc = "done" /\ ValidRows = {} /\ option_data # <<>>) =>
          /\ figure = [tier |-> "placeholder",
                       T_axis |-> <<7, 364, 10>>,
                       S_axis |-> <<8 * stock_price, 12 * stock_price, 10>>,
                       allnan |-> FALSE, values |-> {50}]
          /\ notes = <<"PlaceholderNotice">>
          /\ ~Failed
    /\ (pc = "done" /\ option_data = <<>>) =>
          /\ figure = NoFigure
          /\ notes = <<"NoDataForPlotting">>
          /\ errors = <<>>

C2_Witness ==
    /\ pc = "done"
    /\ Len(option_data) = 2
    /\ ValidRows = {}
    /\ figure.tier = "placeholder"

\* the strikes of the rows of a frame
FrameStrikes(frame) == {frame[i].strike : i \in 1..Len(frame)}

\* the contracts of one side of the fetched chain are in the frame appended
\* for that side exactly when lower_bound <= strike <= upper_bound
SideFiltered(strikes, frame, side, lo, hi) ==
    /\ \A i \in 1..Len(strikes) :
          (strikes[i] \in FrameStrikes(frame)) <=>
             (lo <= 10 * strikes[i] /\ 10 * strikes[i] <= hi)
    /\ \A i \in 1..Len(frame) :
          /\ frame[i].strike \in Range(strikes)
          /\ frame[i].option_type = side
    /\ Cardinality(FrameStrikes(frame)) = Len(frame)

\* C3: of every fetched chain, calls and puts alike, exactly the contracts
\* with lower_bound <= strike <= upper_bound (both ends included) are kept,
\* and every contract kept is handed to the volatility extractor.
C3_StrikeFilter ==
    [][ /\ (pc' = "fetch" /\ option_chain'.available) =>
             /\ Len(all_data') = Len(all_data) + 2
             /\ SideFiltered(option_chain'.calls,
                             all_data'[Len(all_data') - 1], "c",
                             min_input * stock_price, max_input * stock_price)
             /\ SideFiltered(option_chain'.puts,
                             all_data'[Len(all_data')], "p",
                             min_input * stock_price, max_input * stock_price)
        /\ (pc = "fetch" /\ pc' = "main") =>
             /\ Len(option_data') = Len(Flatten(all_data))
             /\ \A i \in 1..Len(option_data') :
                   /\ option_data'[i].strike = Flatten(all_data)[i].strike
                   /\ option_data'[i].option_type
                        = Flatten(all_data)[i].option_type
             /\ iv_calls' = Len(option_data')
      ]_vars

C3_Witness ==
    /\ pc = "fetch"
    /\ option_chain.available
    /\ option_chain.calls = <<8>>
    /\ option_chain.puts = <<13>>
    /\ lower_bound = 80
    /\ Len(all_data[Len(all_data) - 1]) = 1
    /\ all_data[Len(all_data)] = <<>>

\* C4 (as stated): a listed expiration is selected exactly when its date is 7
\* to 730 days after the date of the run, both ends included, whatever the
\* time of day; every maturity is then between 7 and 730 days.
C4_WindowInclusive ==
    (pc \notin {"ticker", "expirations"} \/ "NoExpirations" \in Range(errors)) =>
        /\ \A i \in 1..Len(options) :
              (options[i] \in Range(expiration_dates)) <=>
                 (MinDays <= options[i] /\ options[i] <= MaxDays)
        /\ \A i \in 1..Len(option_data) :
              MinDays <= option_data[i].days /\ option_data[i].days <= MaxDays

\* the valid rows as points, and whether they lie on one line (fewer than
\* three distinct points do)
ValidPoints ==
    {[x |-> option_data[i].days, y |-> option_data[i].strike,
      v |-> option_data[i].iv] : i \in ValidRows}

OnOneLine(pts) ==
    \A a \in pts, b \in pts, c \in pts :
        (b.x - a.x) * (c.y - a.y) = (b.y - a.y) * (c.x - a.x)

\* C5: with at least one valid point the grid drawn is never entirely
\* undefined; when the cubic attempt cannot produce values (the points lie on
\* one line, so it raises) the nearest-neighbour grid is drawn, defined at
\* every node with the volatilities of the points.
C5_GridDefined ==
    (pc = "done" /\ ValidRows # {}) =>
        /\ Rendered
        /\ ~figure.allnan
        /\ OnOneLine(ValidPoints) =>
              /\ figure.tier = "nearest"
              /\ figure.values # {}
              /\ figure.values \subseteq {p.v : p \in ValidPoints}
        /\ ~OnOneLine(ValidPoints) => figure.tier \in {"cubic", "linear"}

\* four points, none at a corner of the mesh: the expirations at the ends carry
\* the middle strike, the middle expiration the two outer strikes
C5_Witness ==
    /\ pc = "done"
    /\ figure.tier = "cubic"
    /\ ~figure.allnan
    /\ Cardinality(ValidPoints) = 4
    /\ \A p \in ValidPoints :
          ~(p.x \in {figure.T_axis[1], figure.T_axis[2]}
              /\ 10 * p.y \in {figure.S_axis[1], figure.S_axis[2]})

\* C6: cubic is the first method called; linear is called only after a cubic
\* grid that is entirely undefined; nearest is the tier drawn exactly when an
\* attempt raised (the points lie on one line); a single valid point gives the
\* nearest tier and a grid constant at that point's volatility.
C6_TierOrder ==
    (pc = "done" /\ ValidRows # {}) =>
        /\ attempts # <<>>
        /\ attempts[1] = "cubic"
        /\ figure.tier = attempts[Len(attempts)]
        /\ \A i \in 2..Len(attempts) :
              /\ attempts[i] = "linear" => (i = 2 /\ AllNodesNaN(ValidPoints))
              /\ attempts[i] = "nearest" => i = Len(attempts)
              /\ attempts[i] # "cubic"
        /\ (figure.tier = "nearest") <=> OnOneLine(ValidPoints)
        /\ Cardinality(ValidRows) = 1 =>
              /\ figure.tier = "nearest"
              /\ attempts = <<"cubic", "nearest">>
              /\ \A i \in ValidRows : figure.values = {option_data[i].iv}

C6_Witness ==
    /\ pc = "done"
    /\ Cardinality(ValidRows) = 1
    /\ Len(option_data) = 3
    /\ figure.tier = "nearest"
    /\ figure.values = {40}

C8_GridRange ==
    (pc = "done" /\ ValidRows # {}) =>
        /\ figure.T_axis[3] = 50
        /\ figure.S_axis[3] = 50
        /\ \A i \in ValidRows :
              /\ figure.T_axis[1] <= option_data[i].days
              /\ option_data[i].days <= figure.T_axis[2]
              /\ figure.S_axis[1] <= 10 * option_data[i].strike
              /\ 10 * option_data[i].strike <= figure.S_axis[2]
        /\ \E i \in ValidRows : figure.T_axis[1] = option_data[i].days
        /\ \E i \in ValidRows : figure.T_axis[2] = option_data[i].days
        /\ \E i \in ValidRows : figure.S_axis[1] = 10 * option_data[i].strike
        /\ \E i \in ValidRows : figure.S_axis[2] = 10 * option_data[i].strike

\* a row with an undefined volatility lies outside the range drawn
C8_Witness ==
    /\ pc = "done"
    /\ Cardinality(ValidRows) = 2
    /\ figure.tier = "nearest"
    /\ \E i \in 1..Len(option_data) :
          /\ option_data[i].iv = NaN
          /\ 10 * option_data[i].strike > figure.S_axis[2]

\* C9 (as stated): the run moves through AwaitingInput, Fetching, Filtering,
\* Pricing, Interpolating one stage at a time, never back, and ends in
\* Rendered or in Error and not both; a stage that fails (no price history,
\* no expiration in the window, a strike band that is invalid: rejected by the
\* re-check, or with its minimum not below its maximum) shows its message and
\* stops the run before any chain is fetched, any contract priced, anything
\* drawn, and nothing runs after the end.
C9_Pipeline ==
    [][ /\ ~Terminal
        /\ Rank(Stage') >= Rank(Stage)
        /\ ~Terminal' => Rank(Stage') <= Rank(Stage) + 1
        /\ Rendered' => (pc = "plot" /\ pc' = "done")
        /\ Terminal' => (Rendered' <=> ~Failed')
        /\ errors' # errors =>
              /\ pc' = "stopped"
              /\ pc \in {"ticker", "expirations", "band"}
              /\ errors = <<>>
              /\ errors' = << CASE pc = "ticker" -> "NoHistoricalData"
                                [] pc = "expirations" -> "NoExpirations"
                                [] OTHER -> "StrikeBand" >>
        /\ pc' = "stopped" =>
              /\ Len(errors') = 1
              /\ fetched' = <<>>
              /\ iv_calls' = 0
              /\ attempts' = <<>>
              /\ figure' = NoFigure
        /\ (pc = "band" /\ min_input' >= max_input') =>
              /\ pc' = "stopped"
              /\ errors' = <<"StrikeBand">>
      ]_vars

\* C10: with the fractions the widgets accept (0.5 to 1.9 and 0.6 to 2.0) and
\* a positive price the re-check of line 45 is false, and the strike-band
\* error is never shown.
C10_RecheckRedundant ==
    /\ "StrikeBand" \notin Range(errors)
    /\ min_input > 0 =>
          /\ min_input \in 5..19
          /\ max_input \in 6..20
          /\ stock_price > 0
          /\ ~(lower_bound < 5 * stock_price \/ upper_bound > 20 * stock_price)
          /\ pc # "stopped"

\* both widgets at the end of their range
C10_Witness ==
    /\ pc = "fetch"
    /\ min_input = 5
    /\ max_input = 20
    /\ stock_price = 25

=============================================================================
